---- MODULE Spec2Model ----
(***************************************************************************)
(* A model of jcirclebuffer's CircleBuffer<T> (src/src/lib.rs): a circle   *)
(* buffer over an unmoving byte region, described by a start cursor and an *)
(* occupied length.  Every public method is one action; the methods'       *)
(* bodies are operators over the struct, written statement by statement,   *)
(* with each place the Rust code can panic made explicit.                  *)
(*                                                                         *)
(* Offsets are 0-based as in the source; the storage is a sequence, so the *)
(* byte at offset i is buf[i + 1].                                         *)
(***************************************************************************)
EXTENDS Integers, Sequences, FiniteSets, TLC

\* Largest backing region modelled.  A Rust slice holds at most isize::MAX
\* bytes, so MaxSize plays the part of isize::MAX.
MaxSize == 3

\* Byte values are 0..MaxByte.
MaxByte == 1

\* usize::MAX of the scaled-down machine word: usize::MAX = 2 * isize::MAX + 1.
UsizeMax == 2 * MaxSize + 1

Usize == 0..UsizeMax

Byte == 0..MaxByte

\* Byte strings of length at most n.
ByteSeqs(n) == UNION {[1..k -> Byte] : k \in 0..n}

\* Caller-supplied byte strings for a buffer with free bytes of free space:
\* every string that fits and every string one byte too long.  A string
\* that is too long by more runs the same statements as one too long by one.
Data(free) == ByteSeqs(free + 1)

\* Caller-supplied scratch and destination buffers, zeroed as in the tests
\* ([0u8; N]), of every length up to one more than the largest region.
Scratch == {[i \in 1..k |-> 0] : k \in 0..(MaxSize + 1)}

\* What a reader may report: -1 for Err, or Ok(n).  A reader that keeps the
\* io::Read contract reports at most the zone's length; larger n are kept to
\* cover readers that do not.
ReaderResult == {-1} \cup (0..(MaxSize + 1))

VARIABLES start, len, buf, panicked, op, arg, ret

vars == <<start, len, buf, panicked, op, arg, ret>>

\* The struct CircleBuffer { start, len, buf } as one value.
Self == [start |-> start, len |-> len, buf |-> buf]

Min(a, b) == IF a <= b THEN a ELSE b

\* usize::checked_add: None (here -1) when the sum does not fit the word.
checked_add(a, b) == IF a + b > UsizeMax THEN -1 ELSE a + b

\* usize::checked_sub: None (here -1) when the difference is negative.
checked_sub(a, b) == IF b > a THEN -1 ELSE a - b

\* Range indexing s[lo..hi] panics unless lo <= hi <= s.len().
SliceOk(n, lo, hi) == lo <= hi /\ hi <= n

\* The bytes of b at offsets lo .. hi-1.
Slice(b, lo, hi) == SubSeq(b, lo + 1, hi)

\* dst[lo .. lo + w.len()].copy_from_slice(w) on the storage b.
CopyInto(b, lo, w) ==
    [i \in 1..Len(b) |-> IF i - 1 >= lo /\ i - 1 < lo + Len(w) THEN w[i - lo] ELSE b[i]]

\* The empty slice literal &[].
EmptySlice == [lo |-> 0, hi |-> 0]

SliceLen(s) == s.hi - s.lo

\* fn size(&self): the length of the backing region.
size(self) == Len(self.buf)

\* fn available(&self): size() - len(); the subtraction panics on underflow.
available(self) == size(self) - self.len

\* fn is_empty(&self)
is_empty(self) == self.len = 0

\* fn is_full(&self)
is_full(self) == self.len = size(self)

\* fill that asserts the old length (assert before the addition) and then
\* stores the new one unchecked.
fill_assert_before(self, amt) ==
    IF ~(self.len <= size(self)) THEN [panic |-> TRUE, self |-> self]
    ELSE LET sum == checked_add(self.len, amt) IN
         IF sum = -1 THEN [panic |-> TRUE, self |-> self]
         ELSE [panic |-> FALSE, self |-> [self EXCEPT !.len = sum]]

\* fill without its assertion: the new length is stored and never checked.
fill_unasserted(self, amt) ==
    LET sum == checked_add(self.len, amt) IN
    IF sum = -1 THEN [panic |-> TRUE, self |-> self]
    ELSE [panic |-> FALSE, self |-> [self EXCEPT !.len = sum]]

\* fill that clamps the new length to the size instead of asserting.
fill_clamped(self, amt) ==
    LET sum == checked_add(self.len, amt) IN
    IF sum = -1 THEN [panic |-> TRUE, self |-> self]
    ELSE [panic |-> FALSE, self |-> [self EXCEPT !.len = Min(sum, size(self))]]

\* fn fill(&mut self, amt): the length is stored before it is asserted.
fill(self, amt) ==
    LET sum == checked_add(self.len, amt) IN
    IF sum = -1 THEN [panic |-> TRUE, self |-> self]
    ELSE LET s1 == [self EXCEPT !.len = sum] IN
         [panic |-> ~(s1.len <= size(s1)), self |-> s1]

\* clear that also zeroes the storage.
clear_zeroing(self) ==
    [panic |-> FALSE,
     self |-> [self EXCEPT !.len = 0, !.start = 0, !.buf = [i \in 1..Len(self.buf) |-> 0]]]

\* clear that resets the length and leaves the start cursor where it is.
clear_len_only(self) == [panic |-> FALSE, self |-> [self EXCEPT !.len = 0]]

\* fn clear(&mut self)
clear(self) == [panic |-> FALSE, self |-> [self EXCEPT !.len = 0, !.start = 0]]

\* consume that never moves the start cursor back to 0 on becoming empty.
consume_no_reset(self, amt) ==
    LET diff == checked_sub(self.len, amt) IN
    IF diff = -1 THEN [panic |-> TRUE, self |-> self]
    ELSE LET s1 == [self EXCEPT !.len = diff]
             sum == checked_add(s1.start, amt)
         IN
         IF sum = -1 \/ size(s1) = 0 THEN [panic |-> TRUE, self |-> s1]
         ELSE [panic |-> FALSE, self |-> [s1 EXCEPT !.start = sum % size(s1)]]

\* consume that advances the start cursor without reducing it modulo size().
consume_no_modulo(self, amt) ==
    LET diff == checked_sub(self.len, amt) IN
    IF diff = -1 THEN [panic |-> TRUE, self |-> self]
    ELSE LET s1 == [self EXCEPT !.len = diff] IN
         IF s1.len = 0 THEN [panic |-> FALSE, self |-> [s1 EXCEPT !.start = 0]]
         ELSE LET sum == checked_add(s1.start, amt) IN
              IF sum = -1 THEN [panic |-> TRUE, self |-> s1]
              ELSE [panic |-> FALSE, self |-> [s1 EXCEPT !.start = sum]]

\* fn consume(&mut self, amt)
consume(self, amt) ==
    LET diff == checked_sub(self.len, amt) IN
    IF diff = -1 THEN [panic |-> TRUE, self |-> self]
    ELSE LET s1 == [self EXCEPT !.len = diff] IN
         IF s1.len = 0 THEN [panic |-> FALSE, self |-> [s1 EXCEPT !.start = 0]]
         ELSE LET sum == checked_add(s1.start, amt) IN
              IF sum = -1 \/ size(s1) = 0 THEN [panic |-> TRUE, self |-> s1]
              ELSE [panic |-> FALSE, self |-> [s1 EXCEPT !.start = sum % size(s1)]]

\* get_fillable_area that places the end of the occupied bytes at len %
\* size(), leaving out the start cursor.
get_fillable_area_from_len(self) ==
    IF self.len = size(self) THEN [panic |-> FALSE, none |-> TRUE, lo |-> 0, hi |-> 0]
    ELSE IF size(self) = 0 THEN [panic |-> TRUE, none |-> FALSE, lo |-> 0, hi |-> 0]
    ELSE LET end == self.len % size(self) IN
         IF end < self.start
         THEN [panic |-> ~SliceOk(size(self), end, self.start), none |-> FALSE,
               lo |-> end, hi |-> self.start]
         ELSE [panic |-> ~SliceOk(size(self), end, size(self)), none |-> FALSE,
               lo |-> end, hi |-> size(self)]

\* get_fillable_area that tests end <= start where the code tests end < start.
get_fillable_area_le(self) ==
    IF self.len = size(self) THEN [panic |-> FALSE, none |-> TRUE, lo |-> 0, hi |-> 0]
    ELSE LET sum == checked_add(self.start, self.len) IN
         IF sum = -1 \/ size(self) = 0
         THEN [panic |-> TRUE, none |-> FALSE, lo |-> 0, hi |-> 0]
         ELSE LET end == sum % size(self) IN
              IF end <= self.start
              THEN [panic |-> ~SliceOk(size(self), end, self.start), none |-> FALSE,
                    lo |-> end, hi |-> self.start]
              ELSE [panic |-> ~SliceOk(size(self), end, size(self)), none |-> FALSE,
                    lo |-> end, hi |-> size(self)]

\* get_fillable_area that always runs the span to the end of the storage.
get_fillable_area_to_end(self) ==
    IF self.len = size(self) THEN [panic |-> FALSE, none |-> TRUE, lo |-> 0, hi |-> 0]
    ELSE LET sum == checked_add(self.start, self.len) IN
         IF sum = -1 \/ size(self) = 0
         THEN [panic |-> TRUE, none |-> FALSE, lo |-> 0, hi |-> 0]
         ELSE LET end == sum % size(self) IN
              [panic |-> ~SliceOk(size(self), end, size(self)), none |-> FALSE,
               lo |-> end, hi |-> size(self)]

\* fn get_fillable_area(&mut self) -> Option<&mut [u8]>: the span [lo, hi)
\* of the storage, or None.
get_fillable_area(self) ==
    IF self.len = size(self) THEN [panic |-> FALSE, none |-> TRUE, lo |-> 0, hi |-> 0]
    ELSE LET sum == checked_add(self.start, self.len) IN
         IF sum = -1 \/ size(self) = 0
         THEN [panic |-> TRUE, none |-> FALSE, lo |-> 0, hi |-> 0]
         ELSE LET end == sum % size(self) IN
              IF end < self.start
              THEN [panic |-> ~SliceOk(size(self), end, self.start), none |-> FALSE,
                    lo |-> end, hi |-> self.start]
              ELSE [panic |-> ~SliceOk(size(self), end, size(self)), none |-> FALSE,
                    lo |-> end, hi |-> size(self)]

\* view_parts that returns the two halves of a wrapped range in storage
\* order (data_tail, data_head) instead of logical order.
view_parts_swapped(self, amt) ==
    LET nothing == [panic |-> TRUE, head |-> EmptySlice, tail |-> EmptySlice] IN
    IF ~(amt <= self.len) THEN nothing
    ELSE LET view_end == checked_add(self.start, amt) IN
         IF view_end = -1 THEN nothing
         ELSE IF view_end <= size(self)
              THEN [panic |-> ~SliceOk(size(self), self.start, view_end),
                    head |-> [lo |-> self.start, hi |-> view_end], tail |-> EmptySlice]
              ELSE IF self.start > size(self) \/ size(self) = 0 THEN nothing
                   ELSE LET remainder == view_end % size(self) IN
                        [panic |-> remainder > self.start,
                         head |-> [lo |-> 0, hi |-> remainder],
                         tail |-> [lo |-> self.start, hi |-> size(self)]]

\* fn view_parts(&self, amt) -> (&[u8], &[u8]): head and tail as spans of the
\* storage.
view_parts(self, amt) ==
    LET nothing == [panic |-> TRUE, head |-> EmptySlice, tail |-> EmptySlice] IN
    IF ~(amt <= self.len) THEN nothing
    ELSE LET view_end == checked_add(self.start, amt) IN
         IF view_end = -1 THEN nothing
         ELSE IF view_end <= size(self)
              THEN [panic |-> ~SliceOk(size(self), self.start, view_end),
                    head |-> [lo |-> self.start, hi |-> view_end], tail |-> EmptySlice]
              ELSE IF self.start > size(self) \/ size(self) = 0 THEN nothing
                   ELSE LET remainder == view_end % size(self) IN
                        [panic |-> remainder > self.start,
                         head |-> [lo |-> self.start, hi |-> size(self)],
                         tail |-> [lo |-> 0, hi |-> remainder]]

\* view_nocopy without the clamp of view_end to size().
view_nocopy_unclamped(self) ==
    LET sum == checked_add(self.start, self.len) IN
    IF sum = -1 THEN [panic |-> TRUE, lo |-> 0, hi |-> 0]
    ELSE [panic |-> ~SliceOk(size(self), self.start, sum), lo |-> self.start, hi |-> sum]

\* view_nocopy that always runs to the end of the storage (&buf[start..]).
view_nocopy_to_end(self) ==
    [panic |-> ~SliceOk(size(self), self.start, size(self)),
     lo |-> self.start, hi |-> size(self)]

\* fn view_nocopy(&self) -> &[u8]
view_nocopy(self) ==
    LET sum == checked_add(self.start, self.len) IN
    IF sum = -1 THEN [panic |-> TRUE, lo |-> 0, hi |-> 0]
    ELSE LET view_end == IF sum > size(self) THEN size(self) ELSE sum IN
         [panic |-> ~SliceOk(size(self), self.start, view_end),
          lo |-> self.start, hi |-> view_end]

\* extend whose second round copies from the front of data (&data[..remainder])
\* instead of from where the first round stopped (&data[head_amt..]).
extend_tail_from_front(self, data) ==
    LET head == get_fillable_area(self) IN
    IF head.none \/ head.panic THEN [panic |-> TRUE, self |-> self]
    ELSE LET head_amt == Min(Len(data), SliceLen(head))
             s1 == [self EXCEPT !.buf = CopyInto(self.buf, head.lo, SubSeq(data, 1, head_amt))]
             f1 == fill(s1, head_amt)
         IN
         IF f1.panic THEN f1
         ELSE IF head_amt = Len(data) THEN f1
         ELSE LET s2 == f1.self
                  tail == get_fillable_area(s2)
              IN
              IF tail.none \/ tail.panic THEN [panic |-> TRUE, self |-> s2]
              ELSE LET remainder == checked_sub(Len(data), head_amt) IN
                   IF remainder = -1 \/ ~SliceOk(SliceLen(tail), 0, remainder)
                   THEN [panic |-> TRUE, self |-> s2]
                   ELSE LET s3 == [s2 EXCEPT !.buf =
                                      CopyInto(s2.buf, tail.lo, SubSeq(data, 1, remainder))]
                        IN fill(s3, remainder)

\* fn extend(&mut self, data)
extend(self, data) ==
    LET head == get_fillable_area(self) IN
    IF head.none \/ head.panic THEN [panic |-> TRUE, self |-> self]
    ELSE LET head_amt == Min(Len(data), SliceLen(head))
             s1 == [self EXCEPT !.buf = CopyInto(self.buf, head.lo, SubSeq(data, 1, head_amt))]
             f1 == fill(s1, head_amt)
         IN
         IF f1.panic THEN f1
         ELSE IF head_amt = Len(data) THEN f1
         ELSE LET s2 == f1.self
                  tail == get_fillable_area(s2)
              IN
              IF tail.none \/ tail.panic THEN [panic |-> TRUE, self |-> s2]
              ELSE LET remainder == checked_sub(Len(data), head_amt) IN
                   IF remainder = -1 \/ ~SliceOk(SliceLen(tail), 0, remainder)
                   THEN [panic |-> TRUE, self |-> s2]
                   ELSE LET s3 == [s2 EXCEPT !.buf =
                                      CopyInto(s2.buf, tail.lo,
                                               SubSeq(data, head_amt + 1, Len(data)))]
                        IN fill(s3, remainder)

\* The number of get_fillable_area/fill rounds extend(data) runs.
extend_rounds(self, data) ==
    LET head == get_fillable_area(self) IN
    IF head.none \/ head.panic THEN 0
    ELSE IF Min(Len(data), SliceLen(head)) = Len(data) THEN 1 ELSE 2

\* The length of the region read(reader) hands to the reader (0 if none).
read_zone_len(self) ==
    LET zone == get_fillable_area(self) IN
    IF zone.none \/ zone.panic THEN 0 ELSE SliceLen(zone)

\* read that marks the whole zone as filled when the reader reports Err
\* (fill(result.unwrap_or(read_zone.len()))).
read_fill_on_err(self, w, res) ==
    LET read_zone == get_fillable_area(self) IN
    IF read_zone.none \/ read_zone.panic
    THEN [panic |-> TRUE, self |-> self, result |-> -1]
    ELSE LET s1 == [self EXCEPT !.buf = CopyInto(self.buf, read_zone.lo, w)]
             f == fill(s1, IF res # -1 THEN res ELSE SliceLen(read_zone))
         IN [panic |-> f.panic, self |-> f.self, result |-> res]

\* fn read(&mut self, reader): the reader leaves the bytes w in the zone it
\* is given and reports res: -1 for Err, otherwise Ok(res).
read(self, w, res) ==
    LET read_zone == get_fillable_area(self) IN
    IF read_zone.none \/ read_zone.panic
    THEN [panic |-> TRUE, self |-> self, result |-> -1]
    ELSE LET s1 == [self EXCEPT !.buf = CopyInto(self.buf, read_zone.lo, w)] IN
         IF res # -1
         THEN LET f == fill(s1, res) IN
              [panic |-> f.panic, self |-> f.self, result |-> res]
         ELSE [panic |-> FALSE, self |-> s1, result |-> res]

\* Write::write without the test for a full buffer.
Write_write_no_full_test(self, data) ==
    IF self.len > size(self) THEN [panic |-> TRUE, self |-> self, result |-> -1]
    ELSE LET avail == available(self)
             amt == Min(Len(data), avail)
             e == extend(self, SubSeq(data, 1, amt))
         IN [panic |-> e.panic, self |-> e.self, result |-> amt]

\* <CircleBuffer as std::io::Write>::write: result -1 is Err("Full").
Write_write(self, data) ==
    IF self.len > size(self) THEN [panic |-> TRUE, self |-> self, result |-> -1]
    ELSE LET avail == available(self) IN
         IF avail = 0 THEN [panic |-> FALSE, self |-> self, result |-> -1]
         ELSE LET amt == Min(Len(data), avail)
                  e == extend(self, SubSeq(data, 1, amt))
              IN [panic |-> e.panic, self |-> e.self, result |-> amt]

\* Read::read that consumes only as many bytes as the head holds
\* (consume(parts.0.len())).
Read_read_consume_head(self, dest) ==
    LET amt == Min(self.len, Len(dest))
        parts == view_parts(self, amt)
        failed == [panic |-> TRUE, self |-> self, result |-> 0, dest |-> dest]
    IN
    IF parts.panic THEN failed
    ELSE LET p0 == Slice(self.buf, parts.head.lo, parts.head.hi)
             p1 == Slice(self.buf, parts.tail.lo, parts.tail.hi)
         IN
         IF ~SliceOk(Len(dest), 0, Len(p0)) THEN failed
         ELSE LET d1 == CopyInto(dest, 0, p0) IN
              IF ~SliceOk(Len(dest), Len(p0), amt) \/ amt - Len(p0) # Len(p1)
              THEN [failed EXCEPT !.dest = d1]
              ELSE LET d2 == CopyInto(d1, Len(p0), p1)
                       c == consume(self, Len(p0))
                   IN [panic |-> c.panic, self |-> c.self, result |-> amt, dest |-> d2]

\* <CircleBuffer as std::io::Read>::read: dest is the caller's buffer.
Read_read(self, dest) ==
    LET amt == Min(self.len, Len(dest))
        parts == view_parts(self, amt)
        failed == [panic |-> TRUE, self |-> self, result |-> 0, dest |-> dest]
    IN
    IF parts.panic THEN failed
    ELSE LET p0 == Slice(self.buf, parts.head.lo, parts.head.hi)
             p1 == Slice(self.buf, parts.tail.lo, parts.tail.hi)
         IN
         IF ~SliceOk(Len(dest), 0, Len(p0)) THEN failed
         ELSE LET d1 == CopyInto(dest, 0, p0) IN
              IF ~SliceOk(Len(dest), Len(p0), amt) \/ amt - Len(p0) # Len(p1)
              THEN [failed EXCEPT !.dest = d1]
              ELSE LET d2 == CopyInto(d1, Len(p0), p1)
                       c == consume(self, amt)
                   IN [panic |-> c.panic, self |-> c.self, result |-> amt, dest |-> d2]

\* fn view(&self, amt, callback): the slice the callback is invoked with.
\* src tells whether it is a span of the storage or the temporary vector.
view(self, amt) ==
    LET parts == view_parts(self, amt) IN
    IF parts.panic
    THEN [panic |-> TRUE, calls |-> 0, src |-> "none", lo |-> 0, hi |-> 0, data |-> <<>>]
    ELSE LET head == Slice(self.buf, parts.head.lo, parts.head.hi)
             tail == Slice(self.buf, parts.tail.lo, parts.tail.hi)
         IN
         IF Len(tail) = 0
         THEN [panic |-> FALSE, calls |-> 1, src |-> "storage",
               lo |-> parts.head.lo, hi |-> parts.head.hi, data |-> head]
         ELSE LET zeros == [i \in 1..(Len(head) + Len(tail)) |-> 0]
                  view_buffer == CopyInto(CopyInto(zeros, 0, head), Len(head), tail)
              IN [panic |-> FALSE, calls |-> 1, src |-> "view_buffer",
                  lo |-> 0, hi |-> Len(view_buffer), data |-> view_buffer]

\* view_provided that copies only the head into the caller's buffer and
\* leaves the tail's place as it found it.
view_provided_head_only(self, pbuf) ==
    LET amt == Len(pbuf)
        parts == view_parts(self, amt)
    IN
    IF parts.panic
    THEN [panic |-> TRUE, calls |-> 0, src |-> "none", lo |-> 0, hi |-> 0, data |-> <<>>,
          provided |-> pbuf]
    ELSE LET head == Slice(self.buf, parts.head.lo, parts.head.hi)
             tail == Slice(self.buf, parts.tail.lo, parts.tail.hi)
         IN
         IF Len(tail) = 0
         THEN [panic |-> FALSE, calls |-> 1, src |-> "storage",
               lo |-> parts.head.lo, hi |-> parts.head.hi, data |-> head,
               provided |-> pbuf]
         ELSE LET filled == CopyInto(pbuf, 0, head) IN
              [panic |-> FALSE, calls |-> 1, src |-> "provided",
               lo |-> 0, hi |-> Len(filled), data |-> filled, provided |-> filled]

\* fn view_provided(&self, buf, callback): pbuf is the caller's scratch
\* buffer; provided is its contents when the method returns.
view_provided(self, pbuf) ==
    LET amt == Len(pbuf)
        parts == view_parts(self, amt)
    IN
    IF parts.panic
    THEN [panic |-> TRUE, calls |-> 0, src |-> "none", lo |-> 0, hi |-> 0, data |-> <<>>,
          provided |-> pbuf]
    ELSE LET head == Slice(self.buf, parts.head.lo, parts.head.hi)
             tail == Slice(self.buf, parts.tail.lo, parts.tail.hi)
         IN
         IF Len(tail) = 0
         THEN [panic |-> FALSE, calls |-> 1, src |-> "storage",
               lo |-> parts.head.lo, hi |-> parts.head.hi, data |-> head,
               provided |-> pbuf]
         ELSE IF Len(pbuf) - Len(head) # Len(tail)
              THEN [panic |-> TRUE, calls |-> 0, src |-> "none", lo |-> 0, hi |-> 0,
                    data |-> <<>>, provided |-> CopyInto(pbuf, 0, head)]
              ELSE LET filled == CopyInto(CopyInto(pbuf, 0, head), Len(head), tail) IN
                   [panic |-> FALSE, calls |-> 1, src |-> "provided",
                    lo |-> 0, hi |-> Len(filled), data |-> filled, provided |-> filled]

\* fn view_parts_mut(&mut self, amt) -> (&mut [u8], &mut [u8])
view_parts_mut(self, amt) ==
    LET nothing == [panic |-> TRUE, head |-> EmptySlice, tail |-> EmptySlice] IN
    IF ~(amt <= self.len) THEN nothing
    ELSE LET view_end == checked_add(self.start, amt) IN
         IF view_end = -1 THEN nothing
         ELSE IF view_end <= size(self)
              THEN [panic |-> ~SliceOk(size(self), self.start, view_end),
                    head |-> [lo |-> self.start, hi |-> view_end], tail |-> EmptySlice]
              ELSE IF size(self) = 0 THEN nothing
                   ELSE LET remainder == view_end % size(self) IN
                        IF self.start > size(self) THEN nothing
                        ELSE [panic |-> remainder > self.start,
                              head |-> [lo |-> self.start, hi |-> size(self)],
                              tail |-> [lo |-> 0, hi |-> remainder]]

\* view_provided_mut that always copies into the caller's buffer and hands
\* that buffer to the callback.
view_provided_mut_always_copy(self, pbuf, w) ==
    LET amt == Len(pbuf)
        parts == view_parts_mut(self, amt)
    IN
    IF parts.panic
    THEN [panic |-> TRUE, self |-> self, calls |-> 0, src |-> "none", provided |-> pbuf]
    ELSE LET head == Slice(self.buf, parts.head.lo, parts.head.hi)
             tail == Slice(self.buf, parts.tail.lo, parts.tail.hi)
         IN
         IF Len(pbuf) - Len(head) # Len(tail)
         THEN [panic |-> TRUE, self |-> self, calls |-> 0, src |-> "none",
               provided |-> CopyInto(pbuf, 0, head)]
         ELSE LET filled == CopyInto(CopyInto(pbuf, 0, head), Len(head), tail) IN
              [panic |-> FALSE, self |-> self, calls |-> 1, src |-> "provided",
               provided |-> CopyInto(filled, 0, w)]

\* fn view_provided_mut(&mut self, buf, callback): pbuf is the caller's
\* buffer and w the bytes the callback leaves in the slice it is handed (one
\* byte for each byte of the slice).
view_provided_mut(self, pbuf, w) ==
    LET amt == Len(pbuf)
        parts == view_parts_mut(self, amt)
    IN
    IF parts.panic
    THEN [panic |-> TRUE, self |-> self, calls |-> 0, src |-> "none", provided |-> pbuf]
    ELSE LET head == Slice(self.buf, parts.head.lo, parts.head.hi)
             tail == Slice(self.buf, parts.tail.lo, parts.tail.hi)
         IN
         IF Len(tail) = 0
         THEN [panic |-> FALSE,
               self |-> [self EXCEPT !.buf = CopyInto(self.buf, parts.head.lo, w)],
               calls |-> 1, src |-> "storage", provided |-> pbuf]
         ELSE IF Len(pbuf) - Len(head) # Len(tail)
              THEN [panic |-> TRUE, self |-> self, calls |-> 0, src |-> "none",
                    provided |-> CopyInto(pbuf, 0, head)]
              ELSE LET filled == CopyInto(CopyInto(pbuf, 0, head), Len(head), tail) IN
                   [panic |-> FALSE, self |-> self, calls |-> 1, src |-> "provided",
                    provided |-> CopyInto(filled, 0, w)]

\* The length of the slice view_provided_mut hands to its callback (0 when
\* it panics before the call).
view_mut_len(self, pbuf) == IF Len(pbuf) <= self.len THEN Len(pbuf) ELSE 0

NoRet == [kind |-> "unit"]

\* A method returned or panicked: the struct is left as the body left it.
Finish(r) ==
    /\ start' = r.self.start
    /\ len' = r.self.len
    /\ buf' = r.self.buf
    /\ panicked' = r.panic

\* new(buf) over any caller-provided region (with_size gives the all-zero one).
Init ==
    /\ start = 0
    /\ len = 0
    /\ buf \in ByteSeqs(MaxSize)
    /\ panicked = FALSE
    /\ op = "new"
    /\ arg = 0
    /\ ret = NoRet

\* No result of an earlier call is outstanding and no call has panicked: a
\* method of the buffer can be called.
Ready == ~panicked /\ op \in {"new", "idle"}

Fill ==
    \E amt \in Usize :
        /\ Ready
        /\ Finish(fill(Self, amt))
        /\ op' = "fill"
        /\ arg' = amt
        /\ ret' = NoRet

Consume ==
    \E amt \in Usize :
        /\ Ready
        /\ Finish(consume(Self, amt))
        /\ op' = "consume"
        /\ arg' = amt
        /\ ret' = NoRet

Clear ==
    /\ Ready
    /\ Finish(clear(Self))
    /\ op' = "clear"
    /\ arg' = 0
    /\ ret' = NoRet

\* get_fillable_area(): the caller now holds the returned span.
GetFillableArea ==
    /\ Ready
    /\ LET area == get_fillable_area(Self) IN
       /\ panicked' = area.panic
       /\ ret' = area
    /\ op' = "get_fillable_area"
    /\ arg' = 0
    /\ UNCHANGED <<start, len, buf>>

\* The caller stores the bytes w in the span get_fillable_area handed out
\* (any bytes, anywhere in the span) and lets go of the span.
WriteFillable ==
    /\ ~panicked
    /\ op = "get_fillable_area"
    /\ ~ret.none
    /\ \E w \in [1..SliceLen(ret) -> Byte] :
          /\ buf' = CopyInto(buf, ret.lo, w)
          /\ arg' = w
    /\ op' = "write_fillable"
    /\ ret' = NoRet
    /\ UNCHANGED <<start, len, panicked>>

\* The caller is done with what the last call returned; the borrow of the
\* buffer ends and the next method can be called.
Release ==
    /\ ~panicked
    /\ ~Ready
    /\ op' = "idle"
    /\ arg' = 0
    /\ ret' = NoRet
    /\ UNCHANGED <<start, len, buf, panicked>>

Extend ==
    \E data \in Data(size(Self) - len) :
        /\ Ready
        /\ Finish(extend(Self, data))
        /\ op' = "extend"
        /\ arg' = data
        /\ ret' = [rounds |-> extend_rounds(Self, data)]

Read ==
    \E w \in [1..read_zone_len(Self) -> Byte], res \in ReaderResult :
        /\ Ready
        /\ LET r == read(Self, w, res) IN
           /\ Finish(r)
           /\ ret' = [result |-> r.result]
        /\ op' = "read"
        /\ arg' = res

WriteWrite ==
    \E data \in Data(size(Self) - len) :
        /\ Ready
        /\ LET r == Write_write(Self, data) IN
           /\ Finish(r)
           /\ ret' = [result |-> r.result]
        /\ op' = "Write::write"
        /\ arg' = data

ReadRead ==
    \E dest \in Scratch :
        /\ Ready
        /\ LET r == Read_read(Self, dest) IN
           /\ Finish(r)
           /\ ret' = [result |-> r.result, dest |-> r.dest]
        /\ op' = "Read::read"
        /\ arg' = dest

ViewParts ==
    \E amt \in Usize :
        /\ Ready
        /\ LET r == view_parts(Self, amt) IN
           /\ panicked' = r.panic
           /\ ret' = r
        /\ op' = "view_parts"
        /\ arg' = amt
        /\ UNCHANGED <<start, len, buf>>

ViewNocopy ==
    /\ Ready
    /\ LET r == view_nocopy(Self) IN
       /\ panicked' = r.panic
       /\ ret' = r
    /\ op' = "view_nocopy"
    /\ arg' = 0
    /\ UNCHANGED <<start, len, buf>>

View ==
    \E amt \in Usize :
        /\ Ready
        /\ LET r == view(Self, amt) IN
           /\ panicked' = r.panic
           /\ ret' = r
        /\ op' = "view"
        /\ arg' = amt
        /\ UNCHANGED <<start, len, buf>>

ViewProvided ==
    \E pbuf \in Scratch :
        /\ Ready
        /\ LET r == view_provided(Self, pbuf) IN
           /\ panicked' = r.panic
           /\ ret' = r
        /\ op' = "view_provided"
        /\ arg' = pbuf
        /\ UNCHANGED <<start, len, buf>>

ViewPartsMut ==
    \E amt \in Usize :
        /\ Ready
        /\ LET r == view_parts_mut(Self, amt) IN
           /\ panicked' = r.panic
           /\ ret' = r
        /\ op' = "view_parts_mut"
        /\ arg' = amt
        /\ UNCHANGED <<start, len, buf>>

\* The caller stores the bytes w in the two slices view_parts_mut handed
\* out: the first bytes of w in the head, the rest in the tail.
WriteParts ==
    /\ ~panicked
    /\ op = "view_parts_mut"
    /\ \E w \in [1..(SliceLen(ret.head) + SliceLen(ret.tail)) -> Byte] :
          /\ buf' = CopyInto(CopyInto(buf, ret.head.lo, SubSeq(w, 1, SliceLen(ret.head))),
                             ret.tail.lo, SubSeq(w, SliceLen(ret.head) + 1, Len(w)))
          /\ arg' = w
    /\ op' = "write_parts"
    /\ ret' = NoRet
    /\ UNCHANGED <<start, len, panicked>>

ViewProvidedMut ==
    \E pbuf \in Scratch :
        \E w \in [1..view_mut_len(Self, pbuf) -> Byte] :
            /\ Ready
            /\ LET r == view_provided_mut(Self, pbuf, w) IN
               /\ Finish(r)
               /\ ret' = [calls |-> r.calls, src |-> r.src, provided |-> r.provided]
            /\ op' = "view_provided_mut"
            /\ arg' = [pbuf |-> pbuf, w |-> w]

Next ==
    \/ Fill
    \/ Consume
    \/ Clear
    \/ GetFillableArea
    \/ WriteFillable
    \/ Release
    \/ Extend
    \/ Read
    \/ WriteWrite
    \/ ReadRead
    \/ ViewParts
    \/ ViewNocopy
    \/ View
    \/ ViewProvided
    \/ ViewPartsMut
    \/ WriteParts
    \/ ViewProvidedMut

Spec == Init /\ [][Next]_vars

(***************************************************************************)
(* Properties                                                              *)
(***************************************************************************)

\* The occupied bytes in logical order, read as a caller reads them:
\* head followed by tail of view_parts(len()).
Occupied(self) ==
    LET parts == view_parts(self, self.len) IN
    Slice(self.buf, parts.head.lo, parts.head.hi) \o Slice(self.buf, parts.tail.lo, parts.tail.hi)

\* C1 (capacity invariant): after every sequence of non-panicking fill,
\* consume, clear, extend, read(reader), Write::write and Read::read calls,
\* 0 <= len() <= size(), so available() = size() - len() does not underflow.
C1_CapacityInvariant ==
    ~panicked => (0 <= len /\ len <= size(Self) /\ available(Self) >= 0)

\* A fill has brought a non-empty region to exactly full.
C1_Witness ==
    op = "fill" /\ ~panicked /\ arg > 0 /\ size(Self) > 0 /\ len = size(Self)

\* C2 (canonical empty): in every state reached by non-panicking operations,
\* len() = 0 implies that the start cursor is 0.
C2_CanonicalEmpty ==
    (~panicked /\ len = 0) => start = 0

\* A consume of a positive amount has emptied the buffer.
C2_Witness ==
    op = "consume" /\ ~panicked /\ arg > 0 /\ len = 0 /\ size(Self) > 1

\* C3 (round trip, FIFO order): an extend(data) that returns leaves the
\* occupied bytes (head ++ tail of view_parts(len())) equal to the bytes
\* occupied before followed by data, whether or not the written range
\* crosses the wrap point; a consume(amt) that returns removes exactly the
\* first amt of them.  So the occupied view is a FIFO queue of the appended
\* bytes.
C3_RoundTripFifo ==
    [][/\ (op' = "extend" /\ ~panicked') => Occupied(Self') = Occupied(Self) \o arg'
       /\ (op' = "consume" /\ ~panicked') =>
              Occupied(Self') = SubSeq(Occupied(Self), arg' + 1, Len(Occupied(Self)))
      ]_vars

\* An extend has appended, behind bytes already occupied, data whose written
\* range crosses the wrap point.
C3_Witness ==
    /\ op = "extend"
    /\ ~panicked
    /\ len > Len(arg)
    /\ start + len > size(Self)
    /\ start + len - Len(arg) < size(Self)

\* C4: get_fillable_area returns None exactly when is_full(); otherwise the
\* span starts at (start + len) mod size() and ends at start if that offset
\* is below start, and at size() otherwise.
C4_FillableArea ==
    op = "get_fillable_area" =>
        /\ ~panicked
        /\ ret.none <=> is_full(Self)
        /\ ~ret.none =>
              /\ ret.lo = (start + len) % size(Self)
              /\ ret.hi = IF ret.lo < start THEN start ELSE size(Self)

\* get_fillable_area has returned a span that ends at the start cursor.
C4_Witness ==
    op = "get_fillable_area" /\ ~panicked /\ ~ret.none /\ ret.lo < start /\ ret.hi = start

\* C5: fill(amt) adds exactly amt to len() and leaves start alone when
\* len() + amt <= size(); otherwise (also when the sum overflows) it panics
\* and never returns with a clamped or wrapped length.
C5_Fill ==
    [][op' = "fill" =>
          IF len + arg' <= size(Self)
          THEN ~panicked' /\ len' = len + arg' /\ start' = start
          ELSE panicked'
      ]_vars

\* A fill of a positive amount has returned on a buffer whose start is not 0.
C5_Witness ==
    op = "fill" /\ ~panicked /\ arg > 0 /\ start > 0 /\ len > arg

\* C6: consume(amt) with amt <= len() subtracts exactly amt from len() and
\* sets start to (start + amt) mod size(), or to 0 if the buffer became
\* empty; with amt > len() it panics instead of clamping.
C6_Consume ==
    [][op' = "consume" =>
          IF arg' <= len
          THEN /\ ~panicked'
               /\ len' = len - arg'
               /\ start' = IF len' = 0 THEN 0 ELSE (start + arg') % size(Self)
          ELSE panicked' /\ len' = len /\ start' = start
      ]_vars

\* A consume of a positive amount has wrapped the start cursor to offset 0
\* of a buffer that is still not empty.
C6_Witness ==
    op = "consume" /\ ~panicked /\ arg > 0 /\ len > 0 /\ start = 0

\* C7: view_parts(amt) with amt <= len() returns (head, tail) where tail is
\* non-empty iff start + amt > size(), the two lengths add up to amt, and
\* head ++ tail is the bytes at offsets start, start + 1, ... modulo size();
\* with amt > len() it panics.
C7_ViewParts ==
    op = "view_parts" =>
        IF arg <= len
        THEN /\ ~panicked
             /\ SliceLen(ret.tail) > 0 <=> start + arg > size(Self)
             /\ SliceLen(ret.head) + SliceLen(ret.tail) = arg
             /\ Slice(buf, ret.head.lo, ret.head.hi) \o Slice(buf, ret.tail.lo, ret.tail.hi)
                    = [i \in 1..arg |-> buf[((start + i - 1) % size(Self)) + 1]]
        ELSE panicked

\* view_parts has returned a non-empty tail for a proper prefix of the
\* occupied bytes.
C7_Witness ==
    op = "view_parts" /\ ~panicked /\ SliceLen(ret.tail) > 0 /\ arg < len

\* C8 as claimed: extend(data) panics if and only if data.len() >
\* available(); in particular it returns for empty data on a full buffer and
\* on a capacity-0 buffer.
C8_ExtendPanicsIffTooLong ==
    [][op' = "extend" => (panicked' <=> Len(arg') > available(Self))]_vars

\* C9 (two-call fill pattern): in a non-full state get_fillable_area returns
\* a span of length L with 1 <= L <= available(); after fill(L) either the
\* buffer is full or the next get_fillable_area returns a span of length
\* exactly available(), so two rounds reach all free space.
C9_TwoCallFill ==
    [][/\ op' = "get_fillable_area" =>
              (ret'.none \/ (1 <= SliceLen(ret') /\ SliceLen(ret') <= available(Self')))
       /\ (op' = "fill" /\ ~is_full(Self) /\ arg' = SliceLen(get_fillable_area(Self))) =>
              /\ ~panicked'
              /\ \/ is_full(Self')
                 \/ LET next == get_fillable_area(Self') IN
                    ~next.none /\ ~next.panic /\ SliceLen(next) = available(Self')
      ]_vars

\* The first of two free spans has just been filled entirely: the occupied
\* bytes now end at the wrap point and the second span, at the front, is
\* still free.
C9_Witness ==
    /\ op = "fill"
    /\ ~panicked
    /\ arg > 0
    /\ start > 0
    /\ start + len = size(Self)
    /\ SliceLen(get_fillable_area(Self)) = start

\* C10 (materialized view): for amt <= len(), view(amt, cb) and
\* view_provided(buf, cb) with buf.len() = amt invoke the callback once with
\* one slice equal to head ++ tail of view_parts(amt); the slice is a copy of
\* exactly amt bytes iff start + amt > size(), otherwise it is the storage
\* span [start, start + amt); start, len and the storage are unchanged.
C10_MaterializedView ==
    [][(op' \in {"view", "view_provided"}) =>
          LET amt == IF op' = "view" THEN arg' ELSE Len(arg')
              parts == view_parts(Self, amt)
              copy == IF op' = "view" THEN "view_buffer" ELSE "provided"
          IN
          /\ start' = start /\ len' = len /\ buf' = buf
          /\ amt <= len =>
                /\ ~panicked'
                /\ ret'.calls = 1
                /\ ret'.data = Slice(buf, parts.head.lo, parts.head.hi)
                                  \o Slice(buf, parts.tail.lo, parts.tail.hi)
                /\ Len(ret'.data) = amt
                /\ IF start + amt > size(Self)
                   THEN ret'.src = copy
                   ELSE ret'.src = "storage" /\ ret'.lo = start /\ ret'.hi = start + amt
                /\ op' = "view_provided" =>
                      ret'.provided = IF start + amt > size(Self) THEN ret'.data ELSE arg'
      ]_vars

\* view_provided has handed the callback a copy, made in the caller's
\* buffer, of a range that crosses the wrap point.
C10_Witness ==
    op = "view_provided" /\ ~panicked /\ ret.src = "provided" /\ Len(arg) > 1 /\ Len(arg) < len

\* C11 (drain to sink): Read::read(dest) returns Ok(n) with n = min(len(),
\* dest.len()), stores in dest[..n] the first n occupied bytes in logical
\* order (across the wrap point if needed), leaves the rest of dest alone,
\* and leaves the buffer as consume(n) does: len less n, start advanced
\* modulo size() or 0 when empty, storage untouched.
C11_DrainToSink ==
    [][op' = "Read::read" =>
          LET n == Min(len, Len(arg')) IN
          /\ ~panicked'
          /\ ret'.result = n
          /\ Len(ret'.dest) = Len(arg')
          /\ SubSeq(ret'.dest, 1, n) = SubSeq(Occupied(Self), 1, n)
          /\ SubSeq(ret'.dest, n + 1, Len(arg')) = SubSeq(arg', n + 1, Len(arg'))
          /\ len' = len - n
          /\ start' = IF len' = 0 THEN 0 ELSE (start + n) % size(Self)
          /\ buf' = buf
      ]_vars

\* Read::read has copied out a range that crosses the wrap point and left
\* bytes behind: the start cursor wrapped to an offset below the amount read.
C11_Witness ==
    op = "Read::read" /\ ~panicked /\ len > 0 /\ start > 0 /\ start < ret.result

\* C12 (fill from source): when the reader handed to read(reader) reports an
\* error, the error is returned and start, len and the occupied bytes are
\* what they were; when it reports Ok(n), a read that returns has added
\* exactly n to len and left start alone, and it does return whenever n is at
\* most the length of the zone the reader was given.
C12_FillFromSource ==
    [][(op' = "read" /\ ~is_full(Self)) =>
          IF arg' = -1
          THEN /\ ~panicked'
               /\ ret'.result = -1
               /\ start' = start
               /\ len' = len
               /\ Occupied(Self') = Occupied(Self)
          ELSE /\ arg' <= read_zone_len(Self) => ~panicked'
               /\ ~panicked' => (ret'.result = arg' /\ len' = len + arg' /\ start' = start)
      ]_vars

\* A reader has failed on a buffer that holds bytes away from offset 0.
C12_Witness ==
    op = "read" /\ ~panicked /\ arg = -1 /\ ret.result = -1 /\ len > 0 /\ start > 0

\* C13 as claimed (reset): for every capacity, clear() followed by clear()
\* gives the state of one clear(); after clear(), is_empty() holds and
\* get_fillable_area() returns a span whose length equals size().
C13_ClearThenFullSpan ==
    [][op' = "clear" =>
          LET again == clear(Self')
              area == get_fillable_area(Self')
          IN
          /\ ~panicked'
          /\ ~again.panic /\ again.self = Self'
          /\ is_empty(Self')
          /\ ~area.none /\ ~area.panic /\ SliceLen(area) = size(Self')
      ]_vars

\* C13 as amended: clear() followed by clear() gives the state of one
\* clear(); after clear(), is_empty() holds and get_fillable_area() returns
\* the span [0, size()) when size() > 0, and None when size() = 0.
C13_Clear ==
    [][op' = "clear" =>
          LET again == clear(Self')
              area == get_fillable_area(Self')
          IN
          /\ ~panicked'
          /\ ~again.panic /\ again.self = Self'
          /\ is_empty(Self')
          /\ ~area.panic
          /\ IF size(Self') = 0 THEN area.none
             ELSE ~area.none /\ area.lo = 0 /\ area.hi = size(Self')
      ]_vars

\* clear has run on a region of more than one byte that holds a non-zero
\* byte.
C13_Witness ==
    op = "clear" /\ ~panicked /\ size(Self) > 1 /\ \E i \in 1..Len(buf) : buf[i] # 0

\* C14 (zero capacity): a buffer over a 0-byte region is empty and full at
\* once in every state reached without a panic, get_fillable_area() returns
\* None, and every fill(amt) and consume(amt) with amt > 0 panics.
C14_ZeroCapacity ==
    size(Self) = 0 =>
        /\ ~panicked => (is_empty(Self) /\ is_full(Self))
        /\ op = "get_fillable_area" => (~panicked /\ ret.none)
        /\ (op \in {"fill", "consume"} /\ arg > 0) => panicked
        /\ (op \in {"fill", "consume"} /\ arg = 0) => ~panicked

\* fill of a positive amount has panicked on a 0-byte region.
C14_Witness ==
    size(Self) = 0 /\ op = "fill" /\ arg > 0 /\ panicked

\* C15 (totality of the index arithmetic): in every reachable state of a
\* buffer of any capacity, 0 included, view_nocopy(), get_fillable_area(),
\* clear(), view_parts(amt) with amt <= len(), fill(amt) with len() + amt <=
\* size() and consume(amt) with amt <= len() return without a panic: no slice
\* out of range, no modulo by zero, no overflow; and start is below size(),
\* or 0 with the buffer empty.
C15_Totality ==
    [][/\ op' \in {"view_nocopy", "get_fillable_area", "clear"} => ~panicked'
       /\ (op' = "view_parts" /\ arg' <= len) => ~panicked'
       /\ (op' = "fill" /\ len + arg' <= size(Self)) => ~panicked'
       /\ (op' = "consume" /\ arg' <= len) => ~panicked'
       /\ ~panicked' => (start' < size(Self') \/ (start' = 0 /\ len' = 0))
      ]_vars

\* view_parts has returned all the occupied bytes of a buffer whose occupied
\* range crosses the wrap point.
C15_Witness ==
    op = "view_parts" /\ ~panicked /\ arg = len /\ SliceLen(ret.tail) > 0

\* C16: view_nocopy() returns the storage span [start, min(start + len,
\* size())), of length min(len(), size() - start), which is the head that
\* view_parts(len()) returns; it changes no state.
C16_ViewNocopy ==
    [][op' = "view_nocopy" =>
          /\ ~panicked'
          /\ ret'.lo = start
          /\ ret'.hi = Min(start + len, size(Self))
          /\ SliceLen(ret') = Min(len, size(Self) - start)
          /\ [lo |-> ret'.lo, hi |-> ret'.hi] = view_parts(Self, len).head
          /\ start' = start /\ len' = len /\ buf' = buf
      ]_vars

\* view_nocopy has returned fewer bytes than are occupied: the rest lies
\* past the wrap point.
C16_Witness ==
    op = "view_nocopy" /\ ~panicked /\ SliceLen(ret) > 0 /\ SliceLen(ret) < len

\* C17 (frame of the cursor operations): clear(), fill(amt) and consume(amt)
\* leave every byte of the storage as it was, and no step of any operation
\* changes size().
C17_Frame ==
    [][/\ op' \in {"clear", "fill", "consume"} => buf' = buf
       /\ size(Self') = size(Self)
      ]_vars

\* consume has emptied a buffer whose storage still holds a non-zero byte.
C17_Witness ==
    /\ op = "consume"
    /\ ~panicked
    /\ arg > 0
    /\ len = 0
    /\ \E i \in 1..Len(buf) : buf[i] # 0

\* C18 (fillable region disjoint from the occupied region): the span that
\* get_fillable_area() returns in a non-full state covers no offset of the
\* occupied region, so whatever bytes the caller writes into the span, what
\* view_parts(len()) returns stays the same, as do start and len.
C18_Disjoint ==
    [][/\ (op' = "get_fillable_area" /\ ~ret'.none) =>
              /\ ~panicked'
              /\ ret'.lo < ret'.hi /\ ret'.hi <= size(Self')
              /\ \A i \in ret'.lo..(ret'.hi - 1) :
                    \A k \in 0..(len' - 1) : i # (start' + k) % size(Self')
       /\ op' = "write_fillable" =>
              /\ Occupied(Self') = Occupied(Self)
              /\ view_parts(Self', len') = view_parts(Self, len)
              /\ start' = start /\ len' = len
      ]_vars

\* The caller has written a non-zero byte into the fillable span of a buffer
\* that holds bytes away from offset 0.
C18_Witness ==
    /\ op = "write_fillable"
    /\ ~panicked
    /\ len > 0
    /\ start > 0
    /\ \E i \in 1..Len(arg) : arg[i] # 0

\* C19: Write::write(data) returns an error and leaves start, len and the
\* storage alone exactly when available() = 0, also for empty data;
\* otherwise it returns Ok(n) with n = min(data.len(), available()), appends
\* the first n bytes of data in order behind the occupied bytes, and never
\* panics.
C19_WriteWrite ==
    [][op' = "Write::write" =>
          LET n == Min(Len(arg'), available(Self)) IN
          /\ ~panicked'
          /\ IF available(Self) = 0
             THEN ret'.result = -1 /\ start' = start /\ len' = len /\ buf' = buf
             ELSE /\ ret'.result = n
                  /\ Occupied(Self') = Occupied(Self) \o SubSeq(arg', 1, n)
                  /\ len' = len + n
                  /\ start' = start
      ]_vars

\* Write::write has taken only a part of data, and the bytes it took were
\* written across the wrap point.
C19_Witness ==
    /\ op = "Write::write"
    /\ ~panicked
    /\ ret.result > 0
    /\ ret.result < Len(arg)
    /\ start > 0
    /\ start + len > size(Self)
    /\ start + len - ret.result < size(Self)

\* C20: view_provided_mut(buf, cb): the bytes the callback writes into the
\* slice it receives end up in the circle buffer's occupied bytes if and
\* only if the viewed range of buf.len() bytes does not cross the wrap point
\* (start + buf.len() <= size()), and then the caller's buf is not touched;
\* when the range crosses the wrap point the writes land only in the caller's
\* buf and the storage is unchanged.  start and len are unchanged either way.
C20_ViewProvidedMut ==
    [][(op' = "view_provided_mut" /\ Len(arg'.pbuf) <= len) =>
          LET amt == Len(arg'.pbuf) IN
          /\ ~panicked'
          /\ ret'.calls = 1
          /\ start' = start /\ len' = len
          /\ IF start + amt <= size(Self)
             THEN /\ ret'.src = "storage"
                  /\ buf' = CopyInto(buf, start, arg'.w)
                  /\ SubSeq(Occupied(Self'), 1, amt) = arg'.w
                  /\ ret'.provided = arg'.pbuf
             ELSE /\ ret'.src = "provided"
                  /\ buf' = buf
                  /\ ret'.provided = arg'.w
      ]_vars

\* The callback of view_provided_mut has written a non-zero byte into a view
\* that crosses the wrap point: the byte is in the caller's buffer only.
C20_Witness ==
    /\ op = "view_provided_mut"
    /\ ~panicked
    /\ ret.src = "provided"
    /\ start + Len(arg.pbuf) > size(Self)
    /\ \E i \in 1..Len(arg.w) : arg.w[i] # 0 /\ ret.provided[i] = arg.w[i]

====
